---- MODULE Spec2Model ----
(***************************************************************************)
(* Steno: the render job orchestrator of apps/renderer-api (index.ts,      *)
(* render.ts) as a state machine.  One Node.js process, one event loop:    *)
(* every HTTP handler, every continuation of a background task and the     *)
(* cleanup timer callback runs to completion before the next one starts,   *)
(* so each of them is one action.                                          *)
(***************************************************************************)
EXTENDS Integers, Sequences, FiniteSets, TLC

\* ------------------------------------------------------------------ bounds
\* number of render jobs submitted in one run of the process
MaxJobs == 2
\* number of steps of TickMs the clock makes
MaxTicks == 2

\* ------------------------------------------------------- values and inputs
JobIds == 1..MaxJobs

\* job.error when it was never assigned
NoError == "<undefined>"
\* job.outputPath / outputUrl when undefined
NoPath == <<>>

\* index.ts:50, the extensions findVideoPath probes, in order
extensions == <<".mp4", ".mov", ".avi", ".mkv", ".webm", ".m4v">>

\* the files present in VIDEO_STORAGE_DIR: <<video id, extension>>
VideoFiles == {<<"vid1", ".mov">>, <<"vid1", ".webm">>}

\* request bodies: videoId "" stands for a missing (falsy) videoId
VideoIdInputs == {"", "vid1", "ghost"}

\* request bodies: the captions field.  present = the field is there,
\* hasList = its .captions member is there, captions = the list (each caption
\* reduced to its end time in milliseconds)
CaptionsInputs ==
  { [present |-> FALSE, hasList |-> FALSE, captions |-> <<>>],
    [present |-> TRUE,  hasList |-> FALSE, captions |-> <<>>],
    [present |-> TRUE,  hasList |-> TRUE,  captions |-> <<>>],
    [present |-> TRUE,  hasList |-> TRUE,  captions |-> <<9400>>] }

\* what the engine passes to renderMedia's onProgress: a fraction of 1, here
\* in thousandths (404 = 0.404)
EngineProgress == {0, 404, 996}

\* what a rejected engine call rejects with: an Error with a message, or a
\* value that is no Error
EngineFailures ==
  { [isError |-> TRUE,  message |-> "ffmpeg exited with code 1"],
    [isError |-> FALSE, message |-> ""] }

VARIABLES
  jobs,         \* index.ts:22 the job store: the set of job ids that are keys of the Map
  job,          \* the RenderJob objects ever created, by id (an object outlives its Map entry)
  task,         \* per job, where its processRenderJob call stands
  renderFiles,  \* ids j such that RENDER_OUTPUT_DIR/j.mp4 exists on disk
  now,          \* the wall clock, in milliseconds
  response,     \* the HTTP response sent by the last step, NoResponse when
                \* that step was no request handler
  process       \* "up", or "crashed" after an uncaught exception

vars == <<jobs, job, task, renderFiles, now, response, process>>

\* The web editor (apps/web) and the compositions (apps/renderer) run in other
\* processes than the orchestrator; their state is below.  Times of captions
\* and words are in milliseconds.
VARIABLES
  doc,          \* part_003:107-111 captions.captions, the caption list the timeline is given
  timeline,     \* part_003:107-138 what CaptionTimeline derived from doc at its last render
  composition,  \* render.ts:119-125 compositionWithDuration, as handed to renderMedia
  emphasisView, \* per word of the caption, whether the compositions and the details
                \* panel show it emphasized
  frame,        \* the frame the compositions were last rendered at (useCurrentFrame
                \* of the composition)
  screen,       \* what the renderer compositions and the web preview show at frame
  dragState,    \* part_003 dragState, null when no drag is under way
  client        \* client.ts:204-245 a call of renderVideo in the web application: its
                \* poll timer, its polls in flight, its promise, and what the Export
                \* component shows (Export.tsx:31-74)

webVars == <<doc, timeline, composition, emphasisView, frame, screen, dragState, client>>

\* ------------------------------------------------------------- pure helpers
\* index.ts:207
maxAge == 24 * 60 * 60 * 1000

\* the step of the modelled wall clock, in milliseconds: the TTL itself, so
\* that a job is seen at the age of exactly 24h (kept) and at 48h (removed)
TickMs == maxAge

\* index.ts:98, path.join(RENDER_OUTPUT_DIR, `${jobId}.mp4`)
OutputPathOf(jobId) == <<"renders", jobId>>

\* fs.existsSync of a path of the render output directory, given the ids
\* whose output file is on disk
existsSync(path, files) == path[2] \in files

\* index.ts:49-58: the first extension, in probing order, whose file exists
RECURSIVE findVideoPathFrom(_, _)
findVideoPathFrom(videoId, i) ==
  IF i > Len(extensions) THEN NoPath
  ELSE IF <<videoId, extensions[i]>> \in VideoFiles
       THEN <<"videos", videoId, extensions[i]>>
       ELSE findVideoPathFrom(videoId, i + 1)

findVideoPath(videoId) == findVideoPathFrom(videoId, 1)

\* render.ts:139-141, Math.round(progress * 100) of a fraction in thousandths
renderMediaOnProgress(progress) == (progress + 5) \div 10

\* mutant of ErrorMessage: the message of the failure is dropped
ErrorMessageGeneric(error) == "Render failed"

\* index.ts:104 and :197, error instanceof Error ? error.message : "Render failed"
ErrorMessage(error) == IF error.isError THEN error.message ELSE "Render failed"

\* index.ts:84-94, the RenderJob object a successful Submit creates.  Its
\* captions, aspectRatio and quality are written here only and read by
\* renderVideo only (render.ts:86-143); no handler of index.ts reads them, and
\* they are left out of the record.
NewJob(jobId, videoId, t) ==
  [ id |-> jobId, status |-> "pending", progress |-> 0, videoId |-> videoId,
    error |-> NoError, outputPath |-> NoPath,
    createdAt |-> t, updatedAt |-> t ]

\* index.ts:175-176, processRenderJob up to its first await: it runs inside
\* the call made at index.ts:101, before the handler builds its response
processRenderJobStart(j, t) ==
  [j EXCEPT !.status = "rendering", !.updatedAt = t]

\* index.ts:183-186, the onProgress callback handed to renderVideo
onProgress(j, progress, t) ==
  [j EXCEPT !.progress = progress, !.updatedAt = t]

\* mutant of processRenderJobComplete: progress is left as last reported
processRenderJobCompleteKeepsProgress(j, outputPath, t) ==
  [j EXCEPT !.status = "complete", !.outputPath = outputPath, !.updatedAt = t]

\* index.ts:189-192, after the awaited renderVideo returned
processRenderJobComplete(j, outputPath, t) ==
  [j EXCEPT !.status = "complete", !.progress = 100,
            !.outputPath = outputPath, !.updatedAt = t]

\* index.ts:195-199, the catch block of processRenderJob (it rethrows)
processRenderJobCatch(j, error, t) ==
  [j EXCEPT !.status = "error", !.error = ErrorMessage(error), !.updatedAt = t]

\* index.ts:101-106, the .catch handler attached to the processRenderJob promise
submitCatchHandler(j, error, t) ==
  [j EXCEPT !.status = "error", !.error = ErrorMessage(error), !.updatedAt = t]

\* mutant of cancelJob: only a pending job is cancelled
cancelJobPendingOnly(j, t) ==
  IF j.status = "pending"
  THEN [j EXCEPT !.status = "error", !.error = "Cancelled by user", !.updatedAt = t]
  ELSE j

\* a cancel that puts a job of any status in error
cancelJobAnyStatus(j, t) ==
  [j EXCEPT !.status = "error", !.error = "Cancelled by user", !.updatedAt = t]

\* index.ts:157-162, the body of the cancel handler
cancelJob(j, t) ==
  IF j.status = "pending" \/ j.status = "rendering"
  THEN [j EXCEPT !.status = "error", !.error = "Cancelled by user", !.updatedAt = t]
  ELSE j

\* an HTTP response; the fields a given response does not carry are blank
Resp(op, code, jobId, status, progress, error, outputUrl) ==
  [ op |-> op, code |-> code, jobId |-> jobId, status |-> status,
    progress |-> progress, error |-> error, outputUrl |-> outputUrl ]

\* mutant of GetStatusResponse: the output reference is always filled in
GetStatusResponseAlwaysUrl(j) ==
  Resp("GetStatus", 200, j.id, j.status, j.progress, j.error, <<"/renders", j.id>>)

\* index.ts:134-142, the body GET /api/render/:jobId answers with
GetStatusResponse(j) ==
  Resp("GetStatus", 200, j.id, j.status, j.progress, j.error,
       IF j.status = "complete" THEN <<"/renders", j.id>> ELSE NoPath)

\* index.ts:108-113, the body POST /api/render answers with
SubmitResponse(j) ==
  Resp("Submit", 200, j.id, j.status, 0, NoError, NoPath)

\* index.ts:164
CancelResponse(jobId) ==
  Resp("Cancel", 200, jobId, "cancelled", 0, NoError, NoPath)

\* no response: the step was a task continuation, the timer or the clock
NoResponse == Resp("", 0, 0, "", 0, NoError, NoPath)

\* an error response: res.status(code).json({ error })
ErrorResponse(op, code, error) ==
  Resp(op, code, 0, "", 0, error, NoPath)

\* mutant of SubmitRejection: the video file is not looked up
SubmitRejectionNoLookup(videoId, captions) ==
  IF videoId = ""
  THEN [code |-> 400, error |-> "videoId is required"]
  ELSE IF ~captions.present \/ ~captions.hasList
  THEN [code |-> 400, error |-> "captions is required"]
  ELSE [code |-> 0, error |-> ""]

\* index.ts:68-80, the checks of POST /api/render in the handler's order:
\* the status code and message of the rejection, code 0 when there is none
SubmitRejection(videoId, captions) ==
  IF videoId = ""
  THEN [code |-> 400, error |-> "videoId is required"]
  ELSE IF ~captions.present \/ ~captions.hasList
  THEN [code |-> 400, error |-> "captions is required"]
  ELSE IF findVideoPath(videoId) = NoPath
  THEN [code |-> 404, error |-> "Video not found"]
  ELSE [code |-> 0, error |-> ""]

\* index.ts:210-220, the loop of cleanupOldJobs over the Map's entries in
\* insertion order (job ids are handed out in increasing order), from entry i
\* on.  unlinkFails is the set of ids whose fs.unlinkSync throws; the exception
\* leaves the loop and the function.
RECURSIVE cleanupFrom(_, _, _, _, _)
cleanupFrom(i, js, files, t, unlinkFails) ==
  IF i > Len(job) THEN [jobs |-> js, files |-> files, threw |-> FALSE]
  ELSE IF i \notin js THEN cleanupFrom(i + 1, js, files, t, unlinkFails)
  ELSE LET age == t - job[i].createdAt IN
       IF age > maxAge
       THEN IF job[i].outputPath # NoPath /\ existsSync(job[i].outputPath, files)
            THEN IF job[i].outputPath[2] \in unlinkFails
                 THEN [jobs |-> js, files |-> files, threw |-> TRUE]
                 ELSE cleanupFrom(i + 1, js \ {i},
                                  files \ {job[i].outputPath[2]}, t, unlinkFails)
            ELSE cleanupFrom(i + 1, js \ {i}, files, t, unlinkFails)
       ELSE cleanupFrom(i + 1, js, files, t, unlinkFails)

\* ------------------------------------------------------------------ state
\* index.ts:22 and the module's top level: the orchestrator after start-up
InitJobs ==
  /\ jobs = {}
  /\ job = <<>>
  /\ task = <<>>
  /\ renderFiles = {}
  /\ now = 0
  /\ response = NoResponse
  /\ process = "up"

\* the web application before a project is opened (part_002:66 captions:
\* null, read as the empty list in part_003:108) and before the timeline
\* is rendered
NotRendered == [rendered |-> FALSE, captionTracks |-> <<>>, maxTrackIndex |-> 0]

\* render.ts:73 renderVideo has not been called
NotComposed == [composed |-> FALSE, fps |-> 0, durationInFrames |-> 0]

\* the caption details panel and the compositions have not been rendered
NotShown == [shown |-> FALSE, renderer |-> <<>>, panel |-> <<>>]

\* no composition has rendered a frame
Blank == [rendered |-> FALSE]

\* Export.tsx:28-30 before handleRenderVideo is called: status "idle", no
\* render progress or status in the store (part_002:69-70), no poll timer
NoRender ==
  [phase |-> "idle", promise |-> "none", polls |-> <<>>,
   renderProgress |-> 0, renderStatus |-> "null", status |-> "idle", calls |-> 0]

\* part_003 useState<DragState | null>(null)
NoDrag == [type |-> "null"]

IdleTimeline == timeline = NotRendered

IdleComposition == composition = NotComposed

IdleEmphasis == emphasisView = NotShown

IdlePlayer == frame = 0 /\ screen = Blank

IdleDrag == dragState = NoDrag

IdleClient == client = NoRender

InitWeb ==
  /\ doc = <<>>
  /\ IdleTimeline
  /\ IdleComposition
  /\ IdleEmphasis
  /\ IdlePlayer
  /\ IdleDrag
  /\ IdleClient

Init == InitJobs /\ InitWeb

\* ---------------------------------------------------------------- actions
\* index.ts:64-120, POST /api/render.  uuidv4() is the next unused id.  The
\* call of processRenderJob at :101 runs the function up to its first await
\* (:175-179) before the response is built at :108.
Submit(videoId, captions) ==
  /\ process = "up"
  /\ UNCHANGED webVars
  /\ LET rejection == SubmitRejection(videoId, captions) IN
     IF rejection.code # 0
     THEN /\ response' = ErrorResponse("Submit", rejection.code, rejection.error)
          /\ UNCHANGED <<jobs, job, task, renderFiles, now, process>>
     ELSE /\ Len(job) < MaxJobs
          /\ LET jobId == Len(job) + 1
                 created == NewJob(jobId, videoId, now)
                 started == processRenderJobStart(created, now)
             IN /\ jobs' = jobs \cup {jobId}
                /\ job' = Append(job, started)
                /\ task' = Append(task, "running")
                /\ response' = SubmitResponse(started)
          /\ UNCHANGED <<renderFiles, now, process>>

\* index.ts:126-143, GET /api/render/:jobId
GetStatus(jobId) ==
  /\ process = "up"
  /\ UNCHANGED webVars
  /\ response' = IF jobId \in jobs THEN GetStatusResponse(job[jobId])
                 ELSE ErrorResponse("GetStatus", 404, "Job not found")
  /\ UNCHANGED <<jobs, job, task, renderFiles, now, process>>

\* index.ts:149-165, DELETE /api/render/:jobId
Cancel(jobId) ==
  /\ process = "up"
  /\ UNCHANGED webVars
  /\ IF jobId \in jobs
     THEN /\ job' = [job EXCEPT ![jobId] = cancelJob(@, now)]
          /\ response' = CancelResponse(jobId)
     ELSE /\ response' = ErrorResponse("Cancel", 404, "Job not found")
          /\ UNCHANGED job
  /\ UNCHANGED <<jobs, task, renderFiles, now, process>>

\* render.ts:139-141 calling index.ts:183-186: the engine reports progress
\* while the renderMedia call of a job is in flight
TaskProgress(jobId, progress) ==
  /\ process = "up"
  /\ UNCHANGED webVars
  /\ jobId \in DOMAIN job
  /\ task[jobId] = "running"
  /\ job' = [job EXCEPT ![jobId] = onProgress(@, renderMediaOnProgress(progress), now)]
  /\ response' = NoResponse
  /\ UNCHANGED <<jobs, task, renderFiles, now, process>>

\* render.ts:129-152 then index.ts:189-194: the engine call returned, having
\* written the video to outputLocation
TaskComplete(jobId) ==
  /\ process = "up"
  /\ UNCHANGED webVars
  /\ jobId \in DOMAIN job
  /\ task[jobId] = "running"
  /\ renderFiles' = renderFiles \cup {jobId}
  /\ job' = [job EXCEPT ![jobId] = processRenderJobComplete(@, OutputPathOf(jobId), now)]
  /\ task' = [task EXCEPT ![jobId] = "returned"]
  /\ response' = NoResponse
  /\ UNCHANGED <<jobs, now, process>>

\* index.ts:195-200 then index.ts:101-106: an awaited call of renderVideo
\* rejected; the catch block records it and rethrows, and the rejection of
\* the processRenderJob promise runs the .catch handler in the same
\* microtask checkpoint, which consumes it
TaskFail(jobId, error) ==
  /\ process = "up"
  /\ UNCHANGED webVars
  /\ jobId \in DOMAIN job
  /\ task[jobId] = "running"
  /\ job' = [job EXCEPT ![jobId] =
               submitCatchHandler(processRenderJobCatch(@, error, now), error, now)]
  /\ task' = [task EXCEPT ![jobId] = "failed"]
  /\ response' = NoResponse
  /\ UNCHANGED <<jobs, renderFiles, now, process>>

\* index.ts:206-224, the hourly timer callback.  An exception thrown by
\* fs.unlinkSync is caught nowhere: it leaves the timer callback and ends
\* the process.
cleanupOldJobs(unlinkFails) ==
  /\ process = "up"
  /\ UNCHANGED webVars
  /\ LET swept == cleanupFrom(1, jobs, renderFiles, now, unlinkFails) IN
     /\ jobs' = swept.jobs
     /\ renderFiles' = swept.files
     /\ process' = IF swept.threw THEN "crashed" ELSE "up"
  /\ response' = NoResponse
  /\ UNCHANGED <<job, task, now>>

\* time passes
Tick ==
  /\ process = "up"
  /\ UNCHANGED webVars
  /\ now < MaxTicks * TickMs
  /\ now' = now + TickMs
  /\ response' = NoResponse
  /\ UNCHANGED <<jobs, job, task, renderFiles, process>>

Next ==
  \/ \E videoId \in VideoIdInputs, captions \in CaptionsInputs : Submit(videoId, captions)
  \/ \E jobId \in JobIds : GetStatus(jobId)
  \/ \E jobId \in JobIds : Cancel(jobId)
  \/ \E jobId \in JobIds, progress \in EngineProgress : TaskProgress(jobId, progress)
  \/ \E jobId \in JobIds : TaskComplete(jobId)
  \/ \E jobId \in JobIds, error \in EngineFailures : TaskFail(jobId, error)
  \/ \E unlinkFails \in SUBSET renderFiles : cleanupOldJobs(unlinkFails)
  \/ Tick

Spec == Init /\ [][Next]_vars

\* ================================================================== claims

\* the statuses of a finished job
Terminal == {"complete", "error"}

\* the moves of the state machine Pending -> Rendering -> {Complete | Error},
\* with Pending/Rendering -> Error by Cancel
Forward(from, to) ==
  \/ to = from
  \/ from = "pending" /\ to \in {"rendering", "error"}
  \/ from = "rendering" /\ to \in Terminal

\* C1 (as claimed): in every step, the status of every job only moves forward
\* along Pending -> Rendering -> {Complete | Error}; once it is Complete or
\* Error it never changes again.
C1_StatusOnlyMovesForward ==
  [][\A j \in DOMAIN job : Forward(job[j].status, job'[j].status)]_vars

\* C2 (as claimed): a successful Submit leaves the new job stored with status
\* Pending and progress 0 and answers with status Pending for its id.
C2_SubmitYieldsPending ==
  (response.op = "Submit" /\ response.code = 200) =>
    /\ response.jobId \in jobs
    /\ job[response.jobId].status = "pending"
    /\ job[response.jobId].progress = 0
    /\ response.status = "pending"

\* C3 (as claimed): once the background task of a job has finished, the job's
\* status is Complete or Error, and its progress is 100 if and only if its
\* status is Complete.
C3_FinishedProgressIffComplete ==
  \A j \in DOMAIN job :
    task[j] # "running" =>
      /\ job[j].status \in Terminal
      /\ (job[j].progress = 100 <=> job[j].status = "complete")

\* C3 (amended): once the background task of a job has finished, the job's
\* status is Complete or Error, and a Complete job has progress 100; an Error
\* job keeps the progress the engine reported last.
C3_FinishedCompleteHasFullProgress ==
  \A j \in DOMAIN job :
    task[j] # "running" =>
      /\ job[j].status \in Terminal
      /\ (job[j].status = "complete" => job[j].progress = 100)

\* C3 witness: a job cancelled while its engine call ran, whose engine call
\* then returned
C3_Witness ==
  \E j \in DOMAIN job :
    /\ task[j] = "returned"
    /\ job[j].error = "Cancelled by user"
    /\ job[j].status = "complete"

\* C4 (as claimed): the progress GetStatus reports for a job never decreases
\* from one state to the next.
C4_PolledProgressNeverDecreases ==
  [][\A j \in jobs \cap jobs' :
       GetStatusResponse(job'[j]).progress >= GetStatusResponse(job[j]).progress]_vars

\* C5: Cancel on a stored job whose status is Pending or Rendering leaves it,
\* in that same step, with status Error and the cancellation message, and a
\* GetStatus issued in the state after it reports both.
C5_CancelIsImmediate ==
  [][\A j \in JobIds :
       (j \in jobs /\ job[j].status \in {"pending", "rendering"} /\ Cancel(j)) =>
         /\ job'[j].status = "error"
         /\ job'[j].error = "Cancelled by user"
         /\ j \in jobs'
         /\ GetStatusResponse(job'[j]).status = "error"
         /\ GetStatusResponse(job'[j]).error = "Cancelled by user"
         /\ GetStatusResponse(job'[j]).progress = job[j].progress]_vars

\* C5 witness: Cancel has just answered for a job that had made progress and
\* whose engine call is still running
C5_Witness ==
  /\ response.op = "Cancel" /\ response.code = 200
  /\ task[response.jobId] = "running"
  /\ job[response.jobId].progress > 0
  /\ job[response.jobId].status = "error"
  /\ job[response.jobId].error = "Cancelled by user"

\* C6 (as claimed): a job put in Error by a Cancel keeps the cancellation
\* message in every later state.
C6_CancelMessageKept ==
  [][\A j \in DOMAIN job :
       (job[j].status = "error" /\ job[j].error = "Cancelled by user") =>
         job'[j].error = "Cancelled by user"]_vars

\* no file of the video id is stored under a recognised extension
NotStored(videoId) ==
  \A i \in 1..Len(extensions) : <<videoId, extensions[i]>> \notin VideoFiles

\* a Submit step that is refused: an error answer, the job store, the job
\* objects and the background tasks as before
Refused ==
  /\ response'.op = "Submit"
  /\ response'.code \in {400, 404}
  /\ response'.error # NoError
  /\ jobs' = jobs /\ job' = job /\ task' = task

\* C7 (as claimed): Submit is refused, and creates no job and starts no task,
\* whenever the video id is missing or resolves to no stored file, or the
\* captions document is missing or its captions list is empty.
C7_RefusesInvalidOrEmpty ==
  [][\A videoId \in VideoIdInputs, captions \in CaptionsInputs :
       ( /\ \/ videoId = ""
            \/ NotStored(videoId)
            \/ ~captions.present
            \/ ~captions.hasList
            \/ captions.captions = <<>>
         /\ Submit(videoId, captions) ) => Refused]_vars

\* C7 (amended): Submit is refused, and creates no job and starts no task,
\* whenever the video id is missing or resolves to no stored file, or the
\* captions document is missing or has no captions list (a captions list that
\* is present but empty is accepted).
C7_RefusesInvalid ==
  [][\A videoId \in VideoIdInputs, captions \in CaptionsInputs :
       ( /\ \/ videoId = ""
            \/ NotStored(videoId)
            \/ ~captions.present
            \/ ~captions.hasList
         /\ Submit(videoId, captions) ) => Refused]_vars

\* C7 witness: Submit has just been refused for an unknown video while the
\* store holds a job
C7_Witness ==
  /\ response.op = "Submit" /\ response.code = 404
  /\ jobs # {}

\* C8: GetStatus answers with an output reference exactly for the jobs whose
\* status is Complete: in every state, for every stored job, and in every
\* answer it has just sent.
C8_OutputUrlIffComplete ==
  /\ \A j \in jobs :
       GetStatusResponse(job[j]).outputUrl # NoPath <=> job[j].status = "complete"
  /\ (response.op = "GetStatus" /\ response.code = 200) =>
       /\ response.jobId \in jobs
       /\ response.outputUrl # NoPath <=> job[response.jobId].status = "complete"
       /\ response.outputUrl # NoPath => response.outputUrl = <<"/renders", response.jobId>>

\* C8 witness: GetStatus has just answered with an output reference
C8_Witness ==
  /\ response.op = "GetStatus"
  /\ response.outputUrl # NoPath

Expired == {j \in jobs : now - job[j].createdAt > maxAge}

\* C10 (as claimed): a cleanup sweep removes from the store exactly the jobs
\* older than the TTL and deletes the output file of each of them that has
\* one; the younger jobs and all other files are as before.
C10_SweepRemovesExactlyExpired ==
  [][\A unlinkFails \in SUBSET renderFiles :
       cleanupOldJobs(unlinkFails) =>
         /\ jobs' = jobs \ Expired
         /\ renderFiles' = renderFiles \ Expired
         /\ job' = job]_vars

\* C11 (as claimed): when deleting the output file of an expired job fails
\* during a sweep, the failure is skipped: every other expired job is still
\* removed and the process stays up.
C11_FailedUnlinkIsSkipped ==
  [][\A unlinkFails \in SUBSET renderFiles :
       cleanupOldJobs(unlinkFails) =>
         /\ process' = "up"
         /\ \A j \in Expired :
              ~(job[j].outputPath # NoPath /\ job[j].outputPath[2] \in unlinkFails)
                => j \notin jobs']_vars

\* ==================================================== the caption timeline
\* CaptionTimeline (src/unnamed/part_003) lays the captions of the document
\* out in lanes.  A caption here is [id, start, end].

\* the longest caption list given to the timeline
MaxCaptions == 3

\* caption times are the multiples of 25 ms up to 25 * MaxTime ms: durations
\* and overlaps below, at and above the 50 ms buffer all occur
MaxTime == 4

Times == {25 * k : k \in 0..MaxTime}

\* packages/contracts: a caption has start < end; ids are unique, here the
\* position in the document
Intervals == {<<s, e>> \in Times \X Times : s < e}

\* the caption list with the intervals iv, in this order
CaptionList(iv) ==
  [i \in DOMAIN iv |-> [id |-> i, start |-> iv[i][1], end |-> iv[i][2]]]

\* part_003:119, the 0.05 s buffer in `caption.start + 0.05`
epsilon == 50

\* a sort that places an element before the elements of the same start
sortInsertBeforeTies(sorted, caption) ==
  LET k == Cardinality({i \in 1..Len(sorted) : sorted[i].start < caption.start})
  IN SubSeq(sorted, 1, k) \o <<caption>> \o SubSeq(sorted, k + 1, Len(sorted))

\* part_003:113, Array.prototype.sort with (a, b) => a.start - b.start places
\* one element into an already sorted prefix; the sort is stable, so the
\* element goes behind every element whose start is not greater
sortInsert(sorted, caption) ==
  LET k == Cardinality({i \in 1..Len(sorted) : sorted[i].start <= caption.start})
  IN SubSeq(sorted, 1, k) \o <<caption>> \o SubSeq(sorted, k + 1, Len(sorted))

\* part_003:113, [...captions.captions].sort((a, b) => a.start - b.start)
RECURSIVE sortedCaptionsFrom(_, _)
sortedCaptionsFrom(list, n) ==
  IF n = 0 THEN <<>>
  ELSE sortInsert(sortedCaptionsFrom(list, n - 1), list[n])

sortedCaptions(list) == sortedCaptionsFrom(list, Len(list))

\* a lane search that reuses the first lane whatever its end time
firstFreeTrackAnyLane(trackEndTimes, caption) ==
  IF Len(trackEndTimes) > 0 THEN 1 ELSE 0

\* a lane search that never reuses a lane
firstFreeTrackNone(trackEndTimes, caption) == 0

\* part_003:118-124, the for loop: the first lane (1-based here) whose end
\* time is <= caption.start + 0.05, or 0 when the loop ends without a break
firstFreeTrack(trackEndTimes, caption) ==
  LET free == {i \in 1..Len(trackEndTimes) : trackEndTimes[i] <= caption.start + epsilon}
  IN IF free = {} THEN 0 ELSE CHOOSE i \in free : \A k \in free : i <= k

\* part_003:115-134, the forEach over sortedCaptions from its i-th element,
\* with the Map `tracks` (caption id -> 0-based lane) and trackEndTimes
RECURSIVE assignTracksFrom(_, _, _, _)
assignTracksFrom(sorted, i, tracks, trackEndTimes) ==
  IF i > Len(sorted) THEN tracks
  ELSE LET caption == sorted[i]
           found == firstFreeTrack(trackEndTimes, caption)
           assignedTrack == IF found # 0 THEN found - 1 ELSE Len(trackEndTimes)
           ends == IF found # 0
                   THEN [trackEndTimes EXCEPT ![found] = caption.end]
                   ELSE Append(trackEndTimes, caption.end)
       IN assignTracksFrom(sorted, i + 1,
                           [id \in DOMAIN tracks \cup {caption.id} |->
                              IF id = caption.id THEN assignedTrack ELSE tracks[id]],
                           ends)

\* part_003:107-136, the useMemo body
captionTracks(list) == assignTracksFrom(sortedCaptions(list), 1, <<>>, <<>>)

\* part_003:138, Math.max(...Array.from(captionTracks.values()), 0)
maxTrackIndexOf(tracks) ==
  LET lanes == {tracks[id] : id \in DOMAIN tracks} \cup {0}
  IN CHOOSE m \in lanes : \A l \in lanes : l <= m

\* a project is opened with some caption list
InitTimeline ==
  /\ InitJobs
  /\ \E n \in 0..MaxCaptions : \E iv \in [1..n -> Intervals] : doc = CaptionList(iv)
  /\ IdleTimeline
  /\ IdleComposition
  /\ IdleEmphasis
  /\ IdlePlayer
  /\ IdleDrag
  /\ IdleClient

\* part_003:107-138, CaptionTimeline renders: the memo is computed from the
\* captions of the document
RenderTimeline ==
  /\ ~timeline.rendered
  /\ timeline' = [rendered |-> TRUE,
                  captionTracks |-> captionTracks(doc),
                  maxTrackIndex |-> maxTrackIndexOf(captionTracks(doc))]
  /\ UNCHANGED <<doc, composition, emphasisView, frame, screen, dragState, client>>
  /\ UNCHANGED vars

NextTimeline == RenderTimeline

SpecTimeline == InitTimeline /\ [][NextTimeline]_<<vars, webVars>>

\* the time two captions are shown together
Overlap(a, b) ==
  (IF a.end < b.end THEN a.end ELSE b.end) - (IF a.start > b.start THEN a.start ELSE b.start)

\* the lane the rendered timeline gives a caption
LaneOf(caption) == timeline.captionTracks[caption.id]

\* C12: in the rendered timeline of a caption list with unique ids, of any
\* two captions with the same lane the one later in start-time order starts
\* no more than epsilon before the earlier one ends (b.start + 0.05 >= a.end),
\* so no two captions of a lane are shown together for more than epsilon.
C12_NoOverlapInLane ==
  timeline.rendered =>
    LET sorted == sortedCaptions(doc) IN
    /\ \A i, j \in 1..Len(sorted) :
         (i < j /\ LaneOf(sorted[i]) = LaneOf(sorted[j])) =>
           sorted[j].start + epsilon >= sorted[i].end
    /\ \A i, j \in 1..Len(doc) :
         (i # j /\ LaneOf(doc[i]) = LaneOf(doc[j])) => Overlap(doc[i], doc[j]) <= epsilon

\* C12 witness: the rendered timeline has put two captions in one lane that
\* are shown together for a time within the buffer, next to a caption it
\* had to move to another lane
C12_Witness ==
  /\ timeline.rendered
  /\ \E i, j, k \in 1..Len(doc) :
       /\ i # j
       /\ LaneOf(doc[i]) = LaneOf(doc[j])
       /\ Overlap(doc[i], doc[j]) > 0
       /\ LaneOf(doc[k]) # LaneOf(doc[i])
       /\ Overlap(doc[k], doc[i]) > epsilon

\* the number of lanes the rendered timeline uses
LanesUsed == Cardinality({timeline.captionTracks[id] : id \in DOMAIN timeline.captionTracks})

\* two captions of the document are shown together for more than epsilon
OverlapByMoreThanEpsilon(i, j) == Overlap(doc[i], doc[j]) > epsilon

\* the largest number of captions of the document that pairwise overlap by
\* more than epsilon
LargestOverlappingGroup ==
  LET groups == {g \in SUBSET (1..Len(doc)) :
                   \A i, j \in g : i # j => OverlapByMoreThanEpsilon(i, j)}
      sizes == {Cardinality(g) : g \in groups}
  IN CHOOSE m \in sizes : \A n \in sizes : n <= m

\* some assignment of the captions to k lanes keeps the captions that overlap
\* by more than epsilon in different lanes
FitsInLanes(k) ==
  \E lane \in [1..Len(doc) -> 1..k] :
    \A i, j \in 1..Len(doc) :
      (i # j /\ OverlapByMoreThanEpsilon(i, j)) => lane[i] # lane[j]

LaneCountIsMinimal ==
  /\ LanesUsed = LargestOverlappingGroup
  /\ \A k \in 0..(LanesUsed - 1) : ~FitsInLanes(k)

\* C13 (as claimed): for every caption list, the rendered timeline uses as
\* many lanes as the largest number of captions that pairwise overlap by more
\* than epsilon, and no assignment that keeps such captions apart uses fewer.
C13_LaneCountMinimal ==
  timeline.rendered => LaneCountIsMinimal

\* C13 (amended): for every caption list whose captions are all longer than
\* epsilon, the rendered timeline uses as many lanes as the largest number of
\* captions that pairwise overlap by more than epsilon, and no assignment
\* that keeps such captions apart uses fewer.
C13_LaneCountMinimalForLongCaptions ==
  (timeline.rendered /\ \A i \in 1..Len(doc) : doc[i].end - doc[i].start > epsilon)
    => LaneCountIsMinimal

\* C13 witness: a rendered timeline of three captions, all longer than
\* epsilon, laid out in two lanes
C13_Witness ==
  /\ timeline.rendered
  /\ Len(doc) = 3
  /\ \A i \in 1..Len(doc) : doc[i].end - doc[i].start > epsilon
  /\ LanesUsed = 2

\* =================================================== the render composition
\* renderVideo (apps/renderer-api/src/render.ts) derives the length of the
\* composition from the captions of the job.

\* the longest caption list of a render job
MaxRenderCaptions == 2

\* captions of a render job end at multiples of 200 ms up to MaxSeconds s
MaxSeconds == 10

RenderEnds == {200 * k : k \in 1..(5 * MaxSeconds)}

\* the caption list of a render job whose captions end at `ends`
RenderCaptionList(ends) ==
  [i \in DOMAIN ends |-> [id |-> i, start |-> 0, end |-> ends[i]]]

\* Math.floor of a time in milliseconds, in seconds
MathFloor(ms) == ms \div 1000

\* Math.ceil of a time in milliseconds, in seconds
MathCeil(ms) == (ms + 999) \div 1000

\* render.ts:97
fps == 30

\* a duration that rounds the end of the last caption down
durationInSecondsRoundedDown(list) ==
  IF Len(list) > 0 THEN MathFloor(list[Len(list)].end) + 1 ELSE 10

\* render.ts:95-96, lastCaption ? Math.ceil(lastCaption.end) + 1 : 10
durationInSeconds(list) ==
  IF Len(list) > 0 THEN MathCeil(list[Len(list)].end) + 1 ELSE 10

\* a render job arrives with some caption list
InitRender ==
  /\ InitJobs
  /\ \E n \in 0..MaxRenderCaptions : \E ends \in [1..n -> RenderEnds] :
       doc = RenderCaptionList(ends)
  /\ IdleTimeline
  /\ IdleComposition
  /\ IdleEmphasis
  /\ IdlePlayer
  /\ IdleDrag
  /\ IdleClient

\* render.ts:94-125, renderVideo up to the call of renderMedia
renderVideo ==
  /\ ~composition.composed
  /\ composition' = [composed |-> TRUE,
                     fps |-> fps,
                     durationInFrames |-> durationInSeconds(doc) * fps]
  /\ UNCHANGED <<doc, timeline, emphasisView, frame, screen, dragState, client>>
  /\ UNCHANGED vars

NextRender == renderVideo

SpecRender == InitRender /\ [][NextRender]_<<vars, webVars>>

\* C14: for a job with a non-empty caption list, the composition handed to
\* the engine runs at 30 frames per second for (ceil(end of the last caption)
\* + 1) seconds, ceil being the least whole number of seconds not below the
\* end; a last caption ending at 9.4 s gives 11 s = 330 frames.
C14_DurationFromLastCaption ==
  (composition.composed /\ Len(doc) > 0) =>
    LET end == doc[Len(doc)].end
        ceil == CHOOSE c \in 0..(MaxSeconds + 1) : 1000 * c >= end /\ 1000 * (c - 1) < end
    IN /\ composition.fps = 30
       /\ composition.durationInFrames = (ceil + 1) * 30
       /\ end = 9400 => composition.durationInFrames = 330

\* C14 witness: a job of two captions whose last one ends at 9.4 s, after
\* an earlier one that ends later, has been composed
C14_Witness ==
  /\ composition.composed
  /\ Len(doc) = 2
  /\ doc[2].end = 9400
  /\ doc[1].end > 9400
  /\ composition.durationInFrames = 330

\* ================================================================ emphasis
\* A text is the sequence of its characters.  isEmphasized exists in the
\* compositions (WordByWord.tsx:35-40, Typewriter.tsx:33-38,
\* PreviewComposition.tsx:138-143, :203-208) and, written differently, in
\* the caption details panel (CaptionDetailsPanel.tsx:258-261).

\* the word texts and emphasis entries of the documents considered
hello == <<"H", "e", "l", "l", "o">>

world == <<"w", "o", "r", "l", "d">>

\* String.prototype.toLowerCase on one character, for the letters in use
toLowerCaseChar(c) ==
  CASE c = "H" -> "h"
    [] c = "W" -> "w"
    [] c = "O" -> "o"
    [] c = "R" -> "r"
    [] c = "L" -> "l"
    [] c = "D" -> "d"
    [] OTHER -> c

\* String.prototype.toLowerCase
toLowerCase(text) == [i \in DOMAIN text |-> toLowerCaseChar(text[i])]

\* WordByWord.tsx:36, the character class of /[.,!?]/g
strippedChars == {".", ",", "!", "?"}

\* WordByWord.tsx:36, .replace(/[.,!?]/g, "")
stripPunctuation(text) ==
  LET keep(c) == c \notin strippedChars IN SelectSeq(text, keep)

\* WordByWord.tsx:35-40 (the same in Typewriter.tsx:33-38 and
\* PreviewComposition.tsx:138-143, :203-208)
isEmphasized(word, emphasis) ==
  LET cleanWord == stripPunctuation(toLowerCase(word))
  IN \E i \in DOMAIN emphasis : stripPunctuation(toLowerCase(emphasis[i])) = cleanWord

\* CaptionDetailsPanel.tsx:258-261, the emphasis test of the details panel
panelIsEmphasized(word, emphasis) ==
  \E i \in DOMAIN emphasis :
    toLowerCase(emphasis[i]) = stripPunctuation(toLowerCase(word))

\* CaptionDetailsPanel.tsx:266-277, onClick of the button of a word: the new
\* emphasis list given to updateCaption
toggledEmphasis(word, emphasis) ==
  LET cleanWord == stripPunctuation(word)
      differs(e) == toLowerCase(e) # toLowerCase(cleanWord)
  IN IF panelIsEmphasized(word, emphasis)
     THEN SelectSeq(emphasis, differs)
     ELSE Append(emphasis, cleanWord)

\* ======================================================== the compositions
\* What a caption looks like at a frame: in the renderer compositions (the
\* CaptionSequence of apps/renderer/src/components/CaptionSequence.tsx and
\* the one of src/unnamed/part_007) and in the web preview
\* (PreviewComposition.tsx).  Opacities, scales and offsets are fixed-point
\* numbers: One stands for 1.0 (and for 1 px in offsets); values of springs
\* are in thousandths.

One == 8 * 15 * 125

\* the last frame the compositions are rendered at
MaxFrame == 20

\* types.ts:41 CaptionAnimation
Animations == {"none", "fade-in", "scale-in", "word-by-word", "typewriter"}

\* Math.round of (a time in milliseconds) * fps, in frames; Math.round
\* rounds halves up
MathRoundFrames(ms) == (ms * fps + 500) \div 1000

\* remotion spring() at 30 fps from 0 to 1, in thousandths, frame by frame
\* from frame 0, for the config { damping: 15, stiffness: 200, mass: 0.4 }
\* of WordByWord.tsx:81-85; 1 from the end of the table on
wordSpringTable ==
  <<0, 183, 483, 726, 878, 959, 994, 1006, 1008, 1006, 1004, 1002, 1001>>

\* the same for the config { damping: 12, stiffness: 200, mass: 0.5 } of
\* part_005:24-28
scaleSpringTable ==
  <<0, 167, 488, 783, 980, 1074, 1095, 1076, 1045, 1018, 1001, 992, 991, 993,
    996, 999, 1000, 1001, 1001, 1001>>

\* remotion spring({frame, fps, config}): a frame below 0 counts as frame 0
spring(f, table) ==
  LET clamped == IF f < 0 THEN 0 ELSE f
  IN IF clamped + 1 <= Len(table) THEN table[clamped + 1] ELSE 1000

\* remotion interpolate(x, [0, 1], [a, b]) without clamping, x in thousandths
interpolate(x, a, b) == a + ((b - a) * x) \div 1000

\* remotion interpolate(frame, [0, d], [a, b], {extrapolateRight: "clamp"})
\* for a frame >= 0; d is given in half frames since part_005:32 has d = 7.5
interpolateFrame(f, halfFrames, a, b) ==
  IF 2 * f >= halfFrames THEN b ELSE a + ((b - a) * 2 * f) \div halfFrames

\* a word drawn without animation: Caption.tsx:52-70, part_008:66-86,
\* PreviewComposition.tsx:163-178
staticWord(word, emphasis) ==
  [opacity |-> One, scale |-> One, translateY |-> 0,
   emphasized |-> isEmphasized(word.text, emphasis), springAt |-> {}]

\* a word of the word-by-word animation that appears two frames early
wordByWordWordEarly(word, captionStart, emphasis, f) ==
  LET wordStartFrame == MathRoundFrames(word.start - captionStart)
      localFrame == f - wordStartFrame
      isVisible == localFrame >= -2
      wordSpring == IF isVisible THEN spring(localFrame + 2, wordSpringTable) ELSE 0
  IN [opacity |-> interpolate(wordSpring, 0, One),
      scale |-> interpolate(wordSpring, One \div 2, One),
      translateY |-> interpolate(wordSpring, 20 * One, 0),
      emphasized |-> isEmphasized(word.text, emphasis),
      springAt |-> IF isVisible THEN {localFrame} ELSE {}]

\* WordByWord.tsx:68-93 (part_006:44-69, PreviewComposition.tsx:224-241):
\* one word of the word-by-word animation at the caption-local frame f
wordByWordWord(word, captionStart, emphasis, f) ==
  LET wordStartFrame == MathRoundFrames(word.start - captionStart)
      localFrame == f - wordStartFrame
      isVisible == localFrame >= 0
      wordSpring == IF isVisible THEN spring(localFrame, wordSpringTable) ELSE 0
  IN [opacity |-> interpolate(wordSpring, 0, One),
      scale |-> interpolate(wordSpring, One \div 2, One),
      translateY |-> interpolate(wordSpring, 20 * One, 0),
      emphasized |-> isEmphasized(word.text, emphasis),
      springAt |-> IF isVisible THEN {localFrame} ELSE {}]

\* what a composition draws for a caption whose Sequence is not mounted
Hidden == [mounted |-> FALSE]

\* a caption drawn by a composition: the style of the element around the
\* caption, its words, the number of characters of caption.text shown, and
\* whether the typewriter cursor is drawn
Drawn(opacity, scale, translateY, words, visibleChars, cursor) ==
  [mounted |-> TRUE, opacity |-> opacity, scale |-> scale, translateY |-> translateY,
   words |-> words, visibleChars |-> visibleChars, cursor |-> cursor]

\* Caption.tsx:13-103 and part_008:34-165, the Caption component
Caption(caption) ==
  Drawn(One, One, 0,
        [i \in DOMAIN caption.words |-> staticWord(caption.words[i], caption.emphasis)],
        Len(caption.text), FALSE)

\* CaptionSequence.tsx:77-137 and part_007:130-209 around WordByWord.tsx:24-123
WordByWordCaption(caption, f) ==
  Drawn(One, One, 0,
        [i \in DOMAIN caption.words |->
           wordByWordWord(caption.words[i], caption.start, caption.emphasis, f)],
        Len(caption.text), FALSE)

\* part_005:13-46, <ScaleIn durationInFrames={15}> around a Caption
ScaleIn(caption, f) ==
  [Caption(caption) EXCEPT
     !.scale = interpolate(spring(f, scaleSpringTable), (8 * One) \div 10, One),
     !.opacity = interpolateFrame(f, 15, 0, One)]

\* WordByWord.tsx:139-167, <FadeIn durationInFrames={15}> around a Caption
FadeIn(caption, f) ==
  [Caption(caption) EXCEPT
     !.opacity = interpolateFrame(f, 2 * 15, 0, One),
     !.translateY = interpolateFrame(f, 2 * 15, 20 * One, 0)]

\* part_007:214-284 around Typewriter.tsx:19-84 with charsPerFrame = 0.5
TypewriterCaption(caption, f) ==
  LET charsToShow == f \div 2
  IN Drawn(One, One, 0, <<>>,
           IF charsToShow < Len(caption.text) THEN charsToShow ELSE Len(caption.text),
           charsToShow < Len(caption.text))

\* CaptionSequence.tsx:49-67: every caption is drawn by WordByWordCaption
renderCaption(caption, f) == WordByWordCaption(caption, f)

\* part_007:67-103, renderAnimatedCaption
renderAnimatedCaption(caption, f) ==
  CASE caption.animation = "scale-in" -> ScaleIn(caption, f)
    [] caption.animation = "fade-in" -> FadeIn(caption, f)
    [] caption.animation = "word-by-word" -> WordByWordCaption(caption, f)
    [] caption.animation = "typewriter" -> TypewriterCaption(caption, f)
    [] OTHER -> Caption(caption)

\* PreviewComposition.tsx:89-183, AnimatedCaption
AnimatedCaption(caption, f) ==
  LET still == [i \in DOMAIN caption.words |->
                  staticWord(caption.words[i], caption.emphasis)]
  IN CASE caption.animation = "scale-in" ->
            Drawn(interpolateFrame(f, 2 * 8, 0, One),
                  interpolate(spring(f, scaleSpringTable), (8 * One) \div 10, One),
                  0, still, Len(caption.text), FALSE)
       [] caption.animation = "fade-in" ->
            Drawn(interpolateFrame(f, 2 * 15, 0, One), One,
                  interpolateFrame(f, 2 * 15, 20 * One, 0),
                  still, Len(caption.text), FALSE)
       [] caption.animation \in {"word-by-word", "typewriter"} ->
            WordByWordCaption(caption, f)
       [] OTHER -> Drawn(One, One, 0, still, Len(caption.text), FALSE)

\* the compositions: the two CaptionSequence components of the renderer and
\* the one of the web preview
Compositions == {"CaptionSequence.tsx", "part_007", "PreviewComposition.tsx"}

\* CaptionSequence.tsx:43-69, part_007:60-122, PreviewComposition.tsx:70-84:
\* the caption inside its Sequence at the composition frame f.  A remotion
\* Sequence mounts its children from frame `from` for durationInFrames
\* frames and gives them the frame counted from `from`.
CaptionSequence(which, caption, f) ==
  LET startFrame == MathRoundFrames(caption.start)
      endFrame == MathRoundFrames(caption.end)
      durationInFrames == endFrame - startFrame
      local == f - startFrame
  IN IF local < 0 \/ local >= durationInFrames THEN Hidden
     ELSE CASE which = "CaptionSequence.tsx" -> renderCaption(caption, local)
            [] which = "part_007" -> renderAnimatedCaption(caption, local)
            [] OTHER -> AnimatedCaption(caption, local)

\* the documents played: one caption "Hello world." of 0.4 s or 0.8 s that
\* starts at 0 s or 0.2 s, with each animation, with and without emphasis
\* on its second word; the second word starts before the caption, 0.25 s
\* (7.5 frames) or 0.4 s after its start
PlayedCaptions ==
  { [id |-> 1, start |-> start, end |-> start + length,
     text |-> hello \o <<" ">> \o world \o <<".">>,
     words |-> << [text |-> hello, start |-> start, end |-> start + 100],
                  [text |-> world \o <<".">>, start |-> start + offset,
                   end |-> start + length] >>,
     emphasis |-> emphasis, animation |-> animation] :
      start \in {0, 200}, length \in {400, 800}, offset \in {-100, 250, 400},
      emphasis \in {<<>>, <<world>>}, animation \in Animations }

InitPlayer ==
  /\ InitJobs
  /\ doc \in {<<caption>> : caption \in PlayedCaptions}
  /\ IdleTimeline
  /\ IdleComposition
  /\ IdleEmphasis
  /\ IdlePlayer
  /\ IdleDrag
  /\ IdleClient

\* the renderer renders, or the player of the preview seeks, the frame f:
\* every composition draws the captions of the document
RenderFrame(f) ==
  /\ frame' = f
  /\ screen' = [rendered |-> TRUE,
                shows |-> [which \in Compositions |->
                             [i \in DOMAIN doc |-> CaptionSequence(which, doc[i], f)]]]
  /\ UNCHANGED <<doc, timeline, composition, emphasisView, dragState, client>>
  /\ UNCHANGED vars

NextPlayer == \E f \in 0..MaxFrame : RenderFrame(f)

SpecPlayer == InitPlayer /\ [][NextPlayer]_<<vars, webVars>>

\* the compositions of the renderer, which produce the final video
RendererCompositions == {"CaptionSequence.tsx", "part_007"}

\* C15 (as claimed): a caption whose animation is none is drawn by the
\* renderer, at every frame of its interval, with opacity 1, scale 1 and
\* translateY 0, and so is each of its words.
C15_NoneIsDrawnStill ==
  screen.rendered =>
    \A which \in RendererCompositions, i \in DOMAIN doc :
      LET shown == screen.shows[which][i] IN
      (doc[i].animation = "none" /\ shown.mounted) =>
        /\ shown.opacity = One /\ shown.scale = One /\ shown.translateY = 0
        /\ Len(shown.words) = Len(doc[i].words)
        /\ \A w \in DOMAIN shown.words :
             /\ shown.words[w].opacity = One
             /\ shown.words[w].scale = One
             /\ shown.words[w].translateY = 0

\* what of a drawn caption the viewer sees: the opacity, scale and offset
\* of the caption and of each word, and the characters shown
Visible(shown) ==
  IF ~shown.mounted THEN shown
  ELSE [opacity |-> shown.opacity, scale |-> shown.scale, translateY |-> shown.translateY,
        words |-> [w \in DOMAIN shown.words |->
                     [opacity |-> shown.words[w].opacity,
                      scale |-> shown.words[w].scale,
                      translateY |-> shown.words[w].translateY]],
        visibleChars |-> shown.visibleChars]

\* C16 (as claimed): at every frame and for every animation, the web preview
\* draws each caption and each of its words with the same opacity, scale and
\* vertical offset as the renderer does.
C16_PreviewMatchesRender ==
  screen.rendered =>
    \A which \in RendererCompositions, i \in DOMAIN doc :
      Visible(screen.shows["PreviewComposition.tsx"][i]) = Visible(screen.shows[which][i])

\* C17: in the word-by-word animation of the renderer and of the preview, at
\* every frame, a word whose local clock frame - round((word.start -
\* caption.start) * fps) is negative has opacity exactly 0, and the spring of
\* a word is evaluated at its local clock and only when that is >= 0.
C17_WordHiddenBeforeItsStart ==
  screen.rendered =>
    \A which \in Compositions, i \in DOMAIN doc :
      LET shown == screen.shows[which][i]
          local == frame - MathRoundFrames(doc[i].start)
      IN (doc[i].animation = "word-by-word" /\ shown.mounted) =>
           \A w \in DOMAIN doc[i].words :
             LET clock == local - MathRoundFrames(doc[i].words[w].start - doc[i].start)
             IN /\ clock < 0 => shown.words[w].opacity = 0
                /\ \A at \in shown.words[w].springAt : at >= 0 /\ at = clock

\* C17 witness: a word-by-word caption is on screen in every composition
\* with its first word drawn and its second word still three frames before
\* its start
C17_Witness ==
  /\ screen.rendered
  /\ doc[1].animation = "word-by-word"
  /\ \A which \in Compositions :
       LET shown == screen.shows[which][1] IN
       /\ shown.mounted
       /\ shown.words[1].opacity > 0
       /\ shown.words[2].opacity = 0
  /\ (frame - MathRoundFrames(doc[1].start))
       - MathRoundFrames(doc[1].words[2].start - doc[1].start) = -3

\* ========================================================= the editor store
\* The caption document of the web editor (useStenoStore, src/unnamed/part_002
\* and apps/web/src/store/useStenoStore.ts) and the drags of the timeline
\* (src/unnamed/part_003).  A caption here is [id, start, end, words,
\* animation]; a word is [start, end].  The document is open: captions is
\* not null, so the `if (!captions) return` of every operation is not taken.

\* the most captions a document is let grow to
MaxDocCaptions == 2

\* times of the editor are the multiples of 500 ms up to 500 * MaxEditTime ms
MaxEditTime == 5

EditTimes == {500 * k : k \in 0..MaxEditTime}

\* the ids the user interface names in an operation
CaptionIds == 1..2

\* the animations chosen in the details panel
EditorAnimations == {"scale-in", "word-by-word"}

EditorCaption(id, start, end, words) ==
  [id |-> id, start |-> start, end |-> end, words |-> words, animation |-> "scale-in"]

\* the documents given to setCaptions: ids unique, words sorted by start
\* and inside their caption
EditorDocs ==
  { << EditorCaption(1, 0, 1000, << [start |-> 0, end |-> 500], [start |-> 500, end |-> 1000] >>) >>,
    << EditorCaption(1, 0, 1000, << [start |-> 0, end |-> 500], [start |-> 500, end |-> 1000] >>),
       EditorCaption(2, 1000, 2000, << [start |-> 1000, end |-> 2000] >>) >> }

\* the captions given to addCaption
NewCaptions ==
  { EditorCaption(2, 500, 1500, << [start |-> 500, end |-> 1000] >>) }

\* the distances, in time, the mouse is from where a drag started
DragDeltas == {-1000, -500, 500, 1000}

\* { ...cap, ...updates }
spread(cap, updates) ==
  [f \in DOMAIN cap \cup DOMAIN updates |->
     IF f \in DOMAIN updates THEN updates[f] ELSE cap[f]]

\* part_002:131-145 (useStenoStore.ts:89-103), the new caption list
updateCaption(list, id, updates) ==
  [i \in DOMAIN list |-> IF list[i].id = id THEN spread(list[i], updates) ELSE list[i]]

\* part_002:147-162, the new caption list
updateAllCaptions(list, updates) ==
  [i \in DOMAIN list |-> spread(list[i], updates)]

\* part_002:164-174 (useStenoStore.ts:105-115), the new caption list
deleteCaption(list, id) ==
  LET keep(cap) == cap.id # id IN SelectSeq(list, keep)

\* part_002:176-191 (useStenoStore.ts:117-132), the new caption list
addCaption(list, caption) == sortedCaptions(Append(list, caption))

\* Math.max
MathMax(a, b) == IF a > b THEN a ELSE b

\* part_003:199-200, const minDuration = 0.5 (and the 0.5 of :206)
minDuration == 500

\* part_003:190-210, the updates handleMouseMove gives to updateCaption for
\* the dragged caption, the empty record when it does not call it
dragUpdates(caption, drag, deltaTime) ==
  CASE drag.dragType = "move" ->
         LET newStart == MathMax(0, drag.startTime + deltaTime)
             duration == caption.end - caption.start
         IN [start |-> newStart, end |-> newStart + duration]
    [] drag.dragType = "resize-left" ->
         LET newStart == MathMax(0, drag.startTime + deltaTime)
         IN IF newStart < caption.end - minDuration THEN [start |-> newStart] ELSE <<>>
    [] OTHER ->
         [end |-> MathMax(caption.start + minDuration, caption.end + deltaTime)]

\* Array.prototype.find by id: the index of the first caption with the id,
\* 0 when there is none
findCaption(list, id) ==
  LET found == {i \in DOMAIN list : list[i].id = id}
  IN IF found = {} THEN 0 ELSE CHOOSE i \in found : \A k \in found : i <= k

\* a project is opened: setCaptions has stored some document
InitEditor ==
  /\ InitJobs
  /\ doc \in EditorDocs
  /\ IdleTimeline
  /\ IdleComposition
  /\ IdleEmphasis
  /\ IdlePlayer
  /\ IdleDrag
  /\ IdleClient

editorRest == <<timeline, composition, emphasisView, frame, screen, client>>

\* part_002:109, setCaptions
setCaptions(list) ==
  /\ doc' = list
  /\ UNCHANGED <<dragState, editorRest, vars>>

\* part_002:176-191, addCaption
AddCaption(caption) ==
  /\ Len(doc) < MaxDocCaptions
  /\ doc' = addCaption(doc, caption)
  /\ UNCHANGED <<dragState, editorRest, vars>>

\* CaptionDetailsPanel.tsx:202-207, the animation select of the details
\* panel calls updateCaption
SetAnimation(id, animation) ==
  /\ doc' = updateCaption(doc, id, [animation |-> animation])
  /\ UNCHANGED <<dragState, editorRest, vars>>

\* CaptionDetailsPanel.tsx:84-92, "Apply all" calls updateAllCaptions
ApplyToAll(animation) ==
  /\ doc' = updateAllCaptions(doc, [animation |-> animation])
  /\ UNCHANGED <<dragState, editorRest, vars>>

\* part_002:164-174, deleteCaption
DeleteCaption(id) ==
  /\ doc' = deleteCaption(doc, id)
  /\ UNCHANGED <<dragState, editorRest, vars>>

\* part_003:151-176, handleDragStart: mouse down on a caption block or on
\* one of its edges
handleDragStart(captionId, dragType) ==
  /\ findCaption(doc, captionId) # 0
  /\ LET caption == doc[findCaption(doc, captionId)] IN
     dragState' = [type |-> "drag", captionId |-> captionId, dragType |-> dragType,
                   startTime |-> caption.start,
                   startDuration |-> caption.end - caption.start]
  /\ UNCHANGED <<doc, editorRest, vars>>

\* part_003:178-213, handleMouseMove, registered while a drag is under way
\* (:219-228); deltaTime is deltaX / pixelsPerSecond
handleMouseMove(deltaTime) ==
  /\ dragState # NoDrag
  /\ LET at == findCaption(doc, dragState.captionId) IN
     IF at = 0 THEN UNCHANGED doc
     ELSE LET updates == dragUpdates(doc[at], dragState, deltaTime)
              moved == spread(doc[at], updates)
          IN /\ moved.start \in EditTimes /\ moved.end \in EditTimes
             /\ doc' = updateCaption(doc, dragState.captionId, updates)
  /\ UNCHANGED <<dragState, editorRest, vars>>

\* part_003:215-217, handleMouseUp
handleMouseUp ==
  /\ dragState # NoDrag
  /\ dragState' = NoDrag
  /\ UNCHANGED <<doc, editorRest, vars>>

NextEditor ==
  \/ \E list \in EditorDocs : setCaptions(list)
  \/ \E caption \in NewCaptions : AddCaption(caption)
  \/ \E id \in CaptionIds, animation \in EditorAnimations : SetAnimation(id, animation)
  \/ \E animation \in EditorAnimations : ApplyToAll(animation)
  \/ \E id \in CaptionIds : DeleteCaption(id)
  \/ \E id \in CaptionIds, dragType \in {"move", "resize-left", "resize-right"} :
       handleDragStart(id, dragType)
  \/ \E deltaTime \in DragDeltas : handleMouseMove(deltaTime)
  \/ handleMouseUp

SpecEditor == InitEditor /\ [][NextEditor]_<<vars, webVars>>

\* C18 (as claimed): after any sequence of setCaptions (with documents of
\* unique ids), addCaption, updateCaption, updateAllCaptions and
\* deleteCaption, no two captions of the document share an id.
C18_CaptionIdsUnique ==
  \A i, j \in DOMAIN doc : i # j => doc[i].id # doc[j].id

\* the words of every caption are sorted by start and lie within the
\* caption's [start, end]
WordsWithinCaptions(list) ==
  \A i \in DOMAIN list :
    LET words == list[i].words IN
    /\ \A w \in DOMAIN words :
         list[i].start <= words[w].start /\ words[w].end <= list[i].end
    /\ \A v, w \in DOMAIN words : v < w => words[v].start <= words[w].start

\* C19 (as claimed): a timeline drag (move, resize-left, resize-right) of a
\* document whose words are sorted and inside their captions leaves the
\* words of every caption sorted and inside their caption.
C19_DragsKeepWordsWithinCaptions ==
  [][\A deltaTime \in DragDeltas :
       (WordsWithinCaptions(doc) /\ handleMouseMove(deltaTime))
         => WordsWithinCaptions(doc')]_<<vars, webVars>>

\* ================================================== the emphasis of a word
\* The caption details panel marks, per word of the selected caption,
\* whether the word is emphasized, and toggles the emphasis of a word on a
\* click (CaptionDetailsPanel.tsx:257-279); the compositions draw the word
\* emphasized by their own test (WordByWord.tsx:35-40).

\* the longest emphasis list considered
MaxEmphasis == 2

\* the word texts of the captions considered
WordTexts ==
  { hello, world, world \o <<".">>, <<"W", "O", "R", "L", "D", "!">> }

\* the entries of the emphasis lists considered (Caption.emphasis is a
\* string[]: entries may carry capitals and punctuation)
EmphasisEntries ==
  { hello, world, world \o <<".">>, <<"W", "o", "r", "l", "d">> }

EmphasisLists ==
  UNION { [1..n -> EmphasisEntries] : n \in 0..MaxEmphasis }

\* one caption of two words with an emphasis list
EmphasisCaptions ==
  { [id |-> 1, start |-> 0, end |-> 1500,
     words |-> << [text |-> first, start |-> 0, end |-> 500],
                  [text |-> second, start |-> 500, end |-> 1500] >>,
     emphasis |-> emphasis] :
      first \in WordTexts, second \in WordTexts, emphasis \in EmphasisLists }

\* what the compositions and the details panel show of a caption: per word,
\* whether it is drawn emphasized (WordByWord.tsx:69) and whether its
\* button in the panel is lit (CaptionDetailsPanel.tsx:258-261, :281-285)
emphasisShown(caption) ==
  [shown |-> TRUE,
   renderer |-> [i \in DOMAIN caption.words |->
                   isEmphasized(caption.words[i].text, caption.emphasis)],
   panel |-> [i \in DOMAIN caption.words |->
                panelIsEmphasized(caption.words[i].text, caption.emphasis)]]

InitEmphasis ==
  /\ InitJobs
  /\ \E caption \in EmphasisCaptions : doc = <<caption>>
  /\ IdleTimeline
  /\ IdleComposition
  /\ IdleEmphasis
  /\ IdlePlayer
  /\ IdleDrag
  /\ IdleClient

emphasisRest == <<timeline, composition, frame, screen, dragState, client>>

\* the panel and the compositions render the selected caption
ShowEmphasis ==
  /\ emphasisView' = emphasisShown(doc[1])
  /\ UNCHANGED doc
  /\ UNCHANGED emphasisRest
  /\ UNCHANGED vars

\* CaptionDetailsPanel.tsx:265-278, a click on the button of a word of the
\* rendered panel; the store update renders panel and compositions anew
ToggleEmphasis(idx) ==
  /\ emphasisView.shown
  /\ idx \in DOMAIN doc[1].words
  /\ Len(doc[1].emphasis) < MaxEmphasis \/ panelIsEmphasized(doc[1].words[idx].text, doc[1].emphasis)
  /\ doc' = updateCaption(doc, doc[1].id,
              [emphasis |-> toggledEmphasis(doc[1].words[idx].text, doc[1].emphasis)])
  /\ emphasisView' = emphasisShown(doc'[1])
  /\ UNCHANGED emphasisRest
  /\ UNCHANGED vars

NextEmphasis ==
  \/ ShowEmphasis
  \/ \E idx \in 1..2 : ToggleEmphasis(idx)

SpecEmphasis == InitEmphasis /\ [][NextEmphasis]_<<vars, webVars>>

\* lowercased and stripped of punctuation
Normalized(text) == stripPunctuation(toLowerCase(text))

\* the normalized text of the word equals the normalized form of some entry
NormalizedMatch(word, emphasis) ==
  \E i \in DOMAIN emphasis : Normalized(emphasis[i]) = Normalized(word)

\* C20 (as claimed): wherever a caption is shown, a word is emphasized
\* exactly when its lowercased, punctuation-stripped text equals the
\* lowercased, punctuation-stripped form of some entry of the caption's
\* emphasis list.
C20_EmphasizedIffNormalizedMatch ==
  emphasisView.shown =>
    \A i \in DOMAIN doc[1].words :
      LET match == NormalizedMatch(doc[1].words[i].text, doc[1].emphasis) IN
      /\ emphasisView.renderer[i] = match
      /\ emphasisView.panel[i] = match

\* ================================================ the order of the lanes
\* two captions of the document with identical start and identical end,
\* longer than the buffer
IdenticalLongCaptions(i, j) ==
  /\ doc[i].start = doc[j].start
  /\ doc[i].end = doc[j].end
  /\ doc[i].end - doc[i].start > epsilon

\* C21: the track assignment processes the captions in ascending start
\* time, ties in document order; of two captions with identical start and
\* identical end (longer than epsilon) the one earlier in the document gets
\* the strictly lower lane, and zero captions give the empty mapping.
C21_TiesKeepDocumentOrder ==
  timeline.rendered =>
    LET sorted == sortedCaptions(doc) IN
    /\ \A i, j \in 1..Len(sorted) :
         i < j => \/ sorted[i].start < sorted[j].start
                  \/ sorted[i].start = sorted[j].start /\ sorted[i].id < sorted[j].id
    /\ \A i, j \in 1..Len(doc) :
         (i < j /\ IdenticalLongCaptions(i, j)) => LaneOf(doc[i]) < LaneOf(doc[j])
    /\ doc = <<>> => timeline.captionTracks = <<>>
    /\ DOMAIN timeline.captionTracks = {doc[i].id : i \in 1..Len(doc)}

\* C21 witness: the rendered timeline holds two identical long captions,
\* the earlier of them in a lane above the first, the later above it
C21_Witness ==
  /\ timeline.rendered
  /\ \E i, j \in 1..Len(doc) :
       /\ i < j
       /\ IdenticalLongCaptions(i, j)
       /\ LaneOf(doc[i]) >= 1
       /\ LaneOf(doc[j]) > LaneOf(doc[i])

\* ============================================ quality and compression factor
\* The quality of a render request (index.ts:66, default 80) is stored on
\* the job (index.ts:91) and turned into the encoder's constant rate factor
\* when renderVideo calls the engine (render.ts:143).

\* packages/contracts types.ts:329-330, "Output quality (0-100)"
Qualities == 0..100

\* the bodies of the render requests considered: with a quality or without
RenderRequests ==
  {[videoId |-> "vid1"]} \cup {[videoId |-> "vid1", quality |-> q] : q \in Qualities}

\* index.ts:66, const { ..., quality = 80 } = req.body
requestQuality(body) == IF "quality" \in DOMAIN body THEN body.quality ELSE 80

\* Math.round of a number given in hundredths: floor(x + 0.5)
MathRoundHundredths(x) == (x + 50) \div 100

\* a mapping that rises with the quality
crfRising(quality) == MathRoundHundredths(1100 + quality * 40)

\* render.ts:143, Math.round(51 - (job.quality / 100) * 40)
crf(quality) == MathRoundHundredths(5100 - quality * 40)

\* the caption lists of the jobs considered: none or one caption
QualityCaptionLists ==
  {RenderCaptionList(<<>>)} \cup {RenderCaptionList(<<end>>) : end \in RenderEnds}

InitQuality ==
  /\ InitJobs
  /\ doc \in QualityCaptionLists
  /\ IdleTimeline
  /\ IdleComposition
  /\ IdleEmphasis
  /\ IdlePlayer
  /\ IdleDrag
  /\ IdleClient

\* index.ts:66-101 and render.ts:94-151: a request is accepted and its job
\* rendered, up to the options renderVideo hands to renderMedia
renderVideoAtQuality(body) ==
  /\ ~composition.composed
  /\ composition' = [composed |-> TRUE,
                     fps |-> fps,
                     durationInFrames |-> durationInSeconds(doc) * fps,
                     quality |-> requestQuality(body),
                     crf |-> crf(requestQuality(body))]
  /\ UNCHANGED <<doc, timeline, emphasisView, frame, screen, dragState, client>>
  /\ UNCHANGED vars

NextQuality == \E body \in RenderRequests : renderVideoAtQuality(body)

SpecQuality == InitQuality /\ [][NextQuality]_<<vars, webVars>>

\* C22 (as claimed): the compression factor is strictly ordered against the
\* quality: every lower quality in 0..100 has a strictly higher factor than
\* the one of the rendered job, with crf(0) = 51 and crf(100) = 11.
C22_HigherQualityLowerCrf ==
  composition.composed =>
    /\ \A q \in Qualities : q < composition.quality => crf(q) > composition.crf
    /\ \A q \in Qualities : q > composition.quality => crf(q) < composition.crf
    /\ composition.quality = 0 => composition.crf = 51
    /\ composition.quality = 100 => composition.crf = 11

\* C22 (amended): a higher quality never has a higher compression factor,
\* and has a strictly lower one when the qualities differ by 3 or more;
\* crf(0) = 51 and crf(100) = 11.
C22_HigherQualityNoHigherCrf ==
  composition.composed =>
    /\ \A q \in Qualities : q < composition.quality => crf(q) >= composition.crf
    /\ \A q \in Qualities : q > composition.quality => crf(q) <= composition.crf
    /\ \A q \in Qualities : q + 3 <= composition.quality => crf(q) > composition.crf
    /\ \A q \in Qualities : q >= composition.quality + 3 => crf(q) < composition.crf
    /\ composition.quality = 0 => composition.crf = 51
    /\ composition.quality = 100 => composition.crf = 11

\* C22 witness: a job of quality 1 was rendered with the factor 51 that
\* quality 0 has as well
C22_Witness ==
  /\ composition.composed
  /\ composition.quality = 1
  /\ composition.crf = 51
  /\ crf(0) = 51

\* ===================================================== the engine's progress
\* renderMedia calls onProgress with a number; render.ts:139-141 rounds it
\* to a percentage and index.ts:183-186 stores it on the job as it comes.

\* values outside the fraction's range [0, 1], in thousandths
EngineProgressOutOfRange == {-200, 1200}

\* the engine passes a value outside [0, 1] to onProgress
TaskProgressOutOfRange ==
  \E jobId \in JobIds, progress \in EngineProgressOutOfRange : TaskProgress(jobId, progress)

NextEngine ==
  \/ Next
  \/ TaskProgressOutOfRange

SpecEngine == Init /\ [][NextEngine]_vars

\* C23 (as claimed): the progress of every job is an integer between 0 and
\* 100 inclusive, for every value the engine passes to the progress callback.
C23_ProgressWithinPercent ==
  \A jobId \in DOMAIN job : job[jobId].progress \in 0..100

\* ======================================================= the typewriter
\* The Typewriter component (Typewriter.tsx:19-84) reveals caption.text
\* character by character; part_007:91-97 mounts it, inside the caption's
\* Sequence, for the captions of animation "typewriter".

\* the frames rendered
MaxTypewriterFrame == 36

\* String.prototype.slice(0, end) for end >= 0
slice(text, end) == SubSeq(text, 1, IF end < Len(text) THEN end ELSE Len(text))

\* a typewriter that rounds the number of characters up
TypewriterRoundedUp(text, f) ==
  LET charsToShow == (f + 1) \div 2
  IN [visibleText |-> slice(text, charsToShow),
      cursor |-> charsToShow < Len(text),
      cursorOpacity |-> IF (f \div 15) % 2 = 0 THEN 1 ELSE 0]

\* Typewriter.tsx:28-30 charsToShow = Math.floor(frame * charsPerFrame) with
\* the default charsPerFrame = 0.5 (:23), visibleText = text.slice(0,
\* charsToShow); :71-81 the cursor span, rendered while charsToShow <
\* text.length, with opacity Math.floor(frame / 15) % 2 === 0 ? 1 : 0
Typewriter(text, f) ==
  LET charsToShow == f \div 2
  IN [visibleText |-> slice(text, charsToShow),
      cursor |-> charsToShow < Len(text),
      cursorOpacity |-> IF (f \div 15) % 2 = 0 THEN 1 ELSE 0]

\* the captions played: "", "Hello" or "Hello world.", one second long,
\* from 0 s or 0.2 s
TypewriterCaptions ==
  { [id |-> 1, start |-> start, end |-> start + 1000, text |-> text,
     words |-> <<>>, emphasis |-> emphasis, animation |-> "typewriter"] :
      start \in {0, 200},
      text \in {<<>>, hello, hello \o <<" ">> \o world \o <<".">>},
      emphasis \in {<<>>, <<world>>} }

\* part_007:60-122 with animation "typewriter": the Typewriter inside the
\* caption's Sequence at the composition frame f
TypewriterSequence(caption, f) ==
  LET startFrame == MathRoundFrames(caption.start)
      endFrame == MathRoundFrames(caption.end)
      durationInFrames == endFrame - startFrame
      local == f - startFrame
  IN IF local < 0 \/ local >= durationInFrames THEN Hidden
     ELSE [mounted |-> TRUE, localFrame |-> local,
           typewriter |-> Typewriter(caption.text, local)]

InitTypewriter ==
  /\ InitJobs
  /\ doc \in {<<caption>> : caption \in TypewriterCaptions}
  /\ IdleTimeline
  /\ IdleComposition
  /\ IdleEmphasis
  /\ IdlePlayer
  /\ IdleDrag
  /\ IdleClient

\* the renderer renders the frame f of the composition
RenderTypewriterFrame(f) ==
  /\ frame' = f
  /\ screen' = [rendered |-> TRUE,
                shows |-> [i \in DOMAIN doc |-> TypewriterSequence(doc[i], f)]]
  /\ UNCHANGED <<doc, timeline, composition, emphasisView, dragState, client>>
  /\ UNCHANGED vars

NextTypewriter == \E f \in 0..MaxTypewriterFrame : RenderTypewriterFrame(f)

SpecTypewriter == InitTypewriter /\ [][NextTypewriter]_<<vars, webVars>>

\* C24: in the typewriter animation at the caption-local frame f >= 0 the
\* visible text is exactly the first min(floor(f * 0.5), length) characters
\* of the caption's text, spaces included, so the visible length at f is
\* not below the one at any earlier frame; the cursor glyph is rendered if
\* and only if floor(f * 0.5) < length.
C24_TypewriterRevealsPrefix ==
  screen.rendered =>
    \A i \in DOMAIN doc :
      screen.shows[i].mounted =>
        LET f == screen.shows[i].localFrame
            text == doc[i].text
            half == CHOOSE k \in 0..f : 2 * k <= f /\ f < 2 * k + 2
            n == IF half < Len(text) THEN half ELSE Len(text)
            shown == screen.shows[i].typewriter
        IN /\ f >= 0
           /\ shown.visibleText = [c \in 1..n |-> text[c]]
           /\ shown.cursor <=> half < Len(text)
           /\ \A g \in 0..f :
                Len(Typewriter(text, g).visibleText) <= Len(shown.visibleText)

\* C24 witness: "Hello world." is revealed past its space but not wholly,
\* with the cursor, at a frame where the cursor is blinked off
C24_Witness ==
  /\ screen.rendered
  /\ screen.shows[1].mounted
  /\ Len(doc[1].text) = 12
  /\ Len(screen.shows[1].typewriter.visibleText) = 8
  /\ screen.shows[1].typewriter.visibleText[6] = " "
  /\ screen.shows[1].typewriter.cursor
  /\ screen.shows[1].typewriter.cursorOpacity = 0

\* ========================================================= line grouping
\* WordByWord.tsx:42-72 and part_008:92-110 (Caption.tsx:263-281) group the
\* words of a caption into lines before drawing them.

\* the longest word list considered
MaxWords == 3

\* the frames rendered
MaxLineFrame == 20

\* the word lists considered: "Hello" and "world." in turn, starts that do
\* not decrease, every choice of lineBreakBefore (undefined reads as false)
LineWordLists ==
  UNION {
    { [i \in 1..n |-> [text |-> IF i % 2 = 1 THEN hello ELSE world \o <<".">>,
                        start |-> starts[i], end |-> starts[i] + 250,
                        lineBreakBefore |-> breaks[i]]] :
        starts \in {s \in [1..n -> {0, 250, 500}] : \A i \in 1..n : i > 1 => s[i - 1] <= s[i]},
        breaks \in [1..n -> BOOLEAN] } :
    n \in 0..MaxWords }

\* a loop body that starts a new line at every flagged word, also when the
\* current line is empty
pushWordUnguarded(loop, word) ==
  IF word.lineBreakBefore
  THEN [lines |-> Append(loop.lines, loop.currentLine), currentLine |-> <<word>>]
  ELSE [lines |-> loop.lines, currentLine |-> Append(loop.currentLine, word)]

\* WordByWord.tsx:47-53, the body of the for loop over the words
pushWord(loop, word) ==
  IF word.lineBreakBefore /\ Len(loop.currentLine) > 0
  THEN [lines |-> Append(loop.lines, loop.currentLine), currentLine |-> <<word>>]
  ELSE [lines |-> loop.lines, currentLine |-> Append(loop.currentLine, word)]

\* WordByWord.tsx:44-53, lines and currentLine after the first n words
RECURSIVE getLinesLoop(_, _)
getLinesLoop(words, n) ==
  IF n = 0 THEN [lines |-> <<>>, currentLine |-> <<>>]
  ELSE pushWord(getLinesLoop(words, n - 1), words[n])

\* WordByWord.tsx:43-60, getLines
getLines(words) ==
  LET loop == getLinesLoop(words, Len(words))
  IN IF Len(loop.currentLine) > 0 THEN Append(loop.lines, loop.currentLine) ELSE loop.lines

\* WordByWord.tsx:62-121, what the component draws at the caption-local
\* frame f: per line, per word, the word and its style
WordByWord(words, captionStart, emphasis, f) ==
  LET lines == getLines(words)
  IN [l \in DOMAIN lines |->
        [k \in DOMAIN lines[l] |->
           [word |-> lines[l][k],
            style |-> wordByWordWord(lines[l][k], captionStart, emphasis, f)]]]

InitLines ==
  /\ InitJobs
  /\ \E words \in LineWordLists :
       doc = << [id |-> 1, start |-> 0, end |-> 1000, words |-> words,
                 emphasis |-> <<world>>, animation |-> "word-by-word"] >>
  /\ IdleTimeline
  /\ IdleComposition
  /\ IdleEmphasis
  /\ IdlePlayer
  /\ IdleDrag
  /\ IdleClient

\* the caption's Sequence (from frame 0) renders its frame f
RenderLines(f) ==
  /\ frame' = f
  /\ screen' = [rendered |-> TRUE,
                lines |-> WordByWord(doc[1].words, doc[1].start, doc[1].emphasis, f)]
  /\ UNCHANGED <<doc, timeline, composition, emphasisView, dragState, client>>
  /\ UNCHANGED vars

NextLines == \E f \in 0..MaxLineFrame : RenderLines(f)

SpecLines == InitLines /\ [][NextLines]_<<vars, webVars>>

\* the lines one after the other
RECURSIVE Flatten(_, _)
Flatten(lines, n) == IF n = 0 THEN <<>> ELSE Flatten(lines, n - 1) \o lines[n]

\* the positions, in the word list, of the first words of the lines
LineStarts(lines) ==
  {Len(Flatten(lines, l - 1)) + 1 : l \in DOMAIN lines}

\* C25: the lines drawn are consecutive runs of the caption's words: their
\* concatenation is the word list in its order, no line is empty, a word
\* is the first of its line exactly when it is the first word or has
\* lineBreakBefore set, and every word is drawn from its own start frame
\* round((word.start - captionStart) * fps) whatever the grouping.
C25_LinesPartitionWords ==
  screen.rendered =>
    LET words == doc[1].words
        drawn == Flatten(screen.lines, Len(screen.lines))
    IN /\ [i \in DOMAIN drawn |-> drawn[i].word] = words
       /\ \A l \in DOMAIN screen.lines : Len(screen.lines[l]) > 0
       /\ \A i \in DOMAIN words :
            i \in LineStarts(screen.lines) <=> (i = 1 \/ words[i].lineBreakBefore)
       /\ \A i \in DOMAIN drawn :
            LET wordStartFrame == MathRoundFrames(words[i].start - doc[1].start)
            IN /\ drawn[i].style.springAt =
                    IF frame >= wordStartFrame THEN {frame - wordStartFrame} ELSE {}
               /\ drawn[i].style =
                    wordByWordWord([words[i] EXCEPT !.lineBreakBefore = FALSE],
                                   doc[1].start, doc[1].emphasis, frame)

\* C25 witness: three words are drawn in two lines, the first word flagged
\* without effect, the word that opens the second line not yet visible
C25_Witness ==
  /\ screen.rendered
  /\ Len(doc[1].words) = 3
  /\ doc[1].words[1].lineBreakBefore
  /\ Len(screen.lines) = 2
  /\ Len(screen.lines[1]) = 2
  /\ screen.lines[2][1].style.springAt = {}
  /\ screen.lines[1][2].style.springAt # {}

\* ============================================== swept jobs and their files
\* the jobs a cleanup sweep has removed from the store: jobs.delete is
\* called by cleanupOldJobs only (index.ts:217)
SweptJobs == DOMAIN job \ jobs

\* C26 (as claimed): once a sweep has removed a job, no output file of that
\* job id exists in the render output directory, whatever the job's status
\* at the sweep and whatever its background task does afterwards.
C26_SweptJobsLeaveNoFile ==
  \A jobId \in SweptJobs : jobId \notin renderFiles

\* ==================================================== error and status
\* C27 (as claimed): a job's error message is present only if the job's
\* status is error, and GetStatus never returns status pending, rendering
\* or complete together with an error field.
C27_ErrorOnlyWithStatusError ==
  /\ \A jobId \in DOMAIN job :
       job[jobId].error # NoError => job[jobId].status = "error"
  /\ (response.op = "GetStatus" /\ response.code = 200) =>
       (response.error # NoError => response.status = "error")

\* ====================================================== the polling client
\* renderVideo of the web application (client.ts:204-245) starts a render
\* job and asks for its progress every second; Export.handleRenderVideo
\* (Export.tsx:31-74) awaits it and shows progress and status.  The server
\* is the orchestrator above, with the one job the client started.

\* the polls one call of renderVideo sends
MaxPolls == 3

\* Export.tsx:31-44, handleRenderVideo up to the request of startRender
handleRenderVideo ==
  /\ client.phase = "idle"
  /\ client' = [client EXCEPT !.phase = "starting", !.status = "rendering",
                              !.renderProgress = 0, !.renderStatus = "rendering"]
  /\ UNCHANGED <<doc, timeline, composition, emphasisView, frame, screen, dragState>>
  /\ UNCHANGED vars

\* index.ts:64-118, the server handles the POST of startRender
startRenderHandled ==
  /\ client.phase = "starting"
  /\ jobs = {}
  /\ \E captions \in {c \in CaptionsInputs : c.hasList} : Submit("vid1", captions)

\* client.ts:214-218, startRender has returned the job id: the promise is
\* created and the interval set
startRenderReturns ==
  /\ client.phase = "starting"
  /\ jobs # {}
  /\ client' = [client EXCEPT !.phase = "polling", !.promise = "pending"]
  /\ UNCHANGED <<doc, timeline, composition, emphasisView, frame, screen, dragState>>
  /\ UNCHANGED vars

\* client.ts:218-220, the interval fires: the callback sends its GET and
\* waits for the response
PollTimer ==
  /\ client.phase = "polling"
  /\ Len(client.polls) < MaxPolls
  /\ client' = [client EXCEPT !.polls = Append(@, [state |-> "sent", data |-> NoResponse])]
  /\ UNCHANGED <<doc, timeline, composition, emphasisView, frame, screen, dragState>>
  /\ UNCHANGED vars

\* index.ts:124-143, the server handles the GET of poll p
PollHandled(p) ==
  /\ p \in DOMAIN client.polls
  /\ client.polls[p].state = "sent"
  /\ process = "up"
  /\ response' = GetStatusResponse(job[1])
  /\ client' = [client EXCEPT !.polls[p] = [state |-> "answered",
                                            data |-> GetStatusResponse(job[1])]]
  /\ UNCHANGED <<jobs, job, task, renderFiles, now, process>>
  /\ UNCHANGED <<doc, timeline, composition, emphasisView, frame, screen, dragState>>

\* Export.tsx:53-56 after the await of a resolved renderVideo
exportSucceeds(c) == [c EXCEPT !.renderStatus = "complete", !.status = "success"]

\* Export.tsx:57-63, the catch block around the await
exportFails(c) == [c EXCEPT !.renderStatus = "error", !.status = "error"]

\* a promise settles once: resolve and reject of a settled promise do nothing
settle(c, outcome) ==
  IF c.promise # "pending" THEN c
  ELSE IF outcome = "resolved" THEN exportSucceeds([c EXCEPT !.promise = "resolved"])
  ELSE exportFails([c EXCEPT !.promise = "rejected"])

\* client.ts:223-226 and Export.tsx:49-52, the onProgress callback
reportProgress(c, progress) ==
  [c EXCEPT !.renderProgress = progress.progress, !.renderStatus = progress.status,
            !.calls = @ + 1]

\* client.ts:221-238, the poll callback after its await, with the response
\* data `progress`
pollReturned(c, progress) ==
  LET reported == reportProgress(c, progress)
  IN IF progress.status = "complete" /\ progress.outputUrl # NoPath
     THEN settle([reported EXCEPT !.phase = "cleared"], "resolved")
     ELSE IF progress.status = "error"
     THEN settle([reported EXCEPT !.phase = "cleared"], "rejected")
     ELSE reported

\* the response of poll p arrives
PollReturns(p) ==
  /\ p \in DOMAIN client.polls
  /\ client.polls[p].state = "answered"
  /\ client' = [pollReturned(client, client.polls[p].data)
                  EXCEPT !.polls[p] = [state |-> "done", data |-> client.polls[p].data]]
  /\ UNCHANGED <<doc, timeline, composition, emphasisView, frame, screen, dragState>>
  /\ UNCHANGED vars

\* client.ts:239-242, the request of poll p fails: the catch block
PollThrows(p) ==
  /\ p \in DOMAIN client.polls
  /\ client.polls[p].state \in {"sent", "answered"}
  /\ client' = [settle([client EXCEPT !.phase = "cleared"], "rejected")
                  EXCEPT !.polls[p] = [state |-> "failed", data |-> NoResponse]]
  /\ UNCHANGED <<doc, timeline, composition, emphasisView, frame, screen, dragState>>
  /\ UNCHANGED vars

NextPoll ==
  \/ handleRenderVideo
  \/ startRenderHandled
  \/ startRenderReturns
  \/ PollTimer
  \/ \E p \in 1..MaxPolls : PollHandled(p)
  \/ \E p \in 1..MaxPolls : PollReturns(p)
  \/ \E p \in 1..MaxPolls : PollThrows(p)
  \/ \E progress \in EngineProgress : TaskProgress(1, progress)
  \/ TaskComplete(1)
  \/ \E error \in EngineFailures : TaskFail(1, error)

SpecPoll == Init /\ [][NextPoll]_<<vars, webVars>>

\* the promise of renderVideo has resolved or rejected
Settled == client.promise \in {"resolved", "rejected"}

\* C28 (as claimed): once the promise of renderVideo has settled, onProgress
\* is not invoked again, and the progress and status the Export component
\* shows are not overwritten.
C28_NoProgressAfterSettled ==
  [][Settled => /\ client'.calls = client.calls
                /\ client'.renderProgress = client.renderProgress
                /\ client'.renderStatus = client.renderStatus]_<<vars, webVars>>

\* ============================================= rendering an edited document
\* Export.tsx:41-48 hands the document of the editor store to renderVideo,
\* whose job the renderer composes (render.ts:94-98) with a duration taken
\* from the last caption of the list.

NextExport ==
  \/ \E caption \in NewCaptions : AddCaption(caption)
  \/ \E id \in CaptionIds : DeleteCaption(id)
  \/ \E id \in CaptionIds, dragType \in {"move", "resize-left", "resize-right"} :
       handleDragStart(id, dragType)
  \/ \E deltaTime \in DragDeltas : handleMouseMove(deltaTime)
  \/ handleMouseUp
  \/ renderVideo

SpecExport == InitEditor /\ [][NextExport]_<<vars, webVars>>

\* C29 (as claimed): the duration composed for a render of a document the
\* editor has reached with addCaption, updateCaption (timeline move and
\* resize) and deleteCaption is at least the end time of each caption.
C29_DurationCoversEveryCaption ==
  [][renderVideo =>
       \A i \in DOMAIN doc :
         composition'.durationInFrames * 1000 >= doc[i].end * composition'.fps]_<<vars, webVars>>

\* ================================================= cancel of a finished job
\* C30: Cancel on a job whose status is complete or error changes nothing:
\* status, progress, error message, output path and updatedAt of the job
\* are as before, the job stays in the store and its output file is not
\* deleted.
C30_CancelLeavesFinishedJob ==
  [][\A j \in JobIds :
       (j \in jobs /\ job[j].status \in {"complete", "error"} /\ Cancel(j)) =>
         /\ job'[j].status = job[j].status
         /\ job'[j].progress = job[j].progress
         /\ job'[j].error = job[j].error
         /\ job'[j].outputPath = job[j].outputPath
         /\ job'[j].updatedAt = job[j].updatedAt
         /\ j \in jobs'
         /\ renderFiles' = renderFiles]_vars

\* C30 witness: Cancel has just answered for a job that completed at an
\* earlier time and whose output file is on disk
C30_Witness ==
  /\ response.op = "Cancel" /\ response.code = 200
  /\ response.jobId \in jobs
  /\ job[response.jobId].status = "complete"
  /\ job[response.jobId].error = NoError
  /\ job[response.jobId].updatedAt < now
  /\ response.jobId \in renderFiles
====
